---- MODULE Spec2Model ----
(***************************************************************************)
(* Model of litellm-helm/scripts/cost-monitor.py: the in-memory cost       *)
(* ledger (CostTracker), the content classifier (ContentGuardrails) and    *)
(* the request hooks (GuardrailsManager).                                  *)
(*                                                                         *)
(* Money.  The source computes costs as floats in dollars.  The model      *)
(* counts money in exact integer units of 2.5e-8 dollar, the largest unit  *)
(* in which every default per-token price is a whole number:               *)
(*     0.000125 $/1k tokens = 5 units/token,  0.000375 $/1k = 15,          *)
(*     0.000075 $/1k = 3,  0.0003 $/1k = 12,  0.001 $/1k = 40,             *)
(*     0.002 $/1k = 80.                                                    *)
(* Float rounding is therefore outside the model.  The budgets come from   *)
(* the environment (DAILY_BUDGET, ...) and are drawn from Configs in the   *)
(* same unit, small enough that a few requests reach every tier.           *)
(*                                                                         *)
(* Time.  datetime.utcnow() is the variable now, counted in ticks of       *)
(* 1/TicksPerDay day from Epoch (Sunday 2023-12-31 00:00 UTC): the   *)
(* first midnight changes day, week, month and year, the second only the   *)
(* day.                                                                    *)
(***************************************************************************)
EXTENDS Integers, Sequences, FiniteSets, TLC

VARIABLES
    now,            \* datetime.utcnow(), in ticks since Epoch
    cfg,            \* the configuration resolved from the environment
    costs,          \* CostTracker.costs
    daily_costs,    \* CostTracker.daily_costs
    weekly_costs,   \* CostTracker.weekly_costs
    monthly_costs,  \* CostTracker.monthly_costs
    user_costs,     \* CostTracker.user_costs
    model_costs,    \* CostTracker.model_costs
    created,        \* history: every CostEntry ever appended, pruned or not
    last,           \* the last hook call: its arguments and its outcome
    lock,           \* CostTracker.lock: 0 when free, else the holding thread
    pc,             \* per thread: position inside the running call
    frame           \* per thread: locals of the running call

vars == <<now, cfg, costs, daily_costs, weekly_costs, monthly_costs,
          user_costs, model_costs, created, last, lock, pc, frame>>

ledger == <<costs, daily_costs, weekly_costs, monthly_costs,
            user_costs, model_costs>>

-----------------------------------------------------------------------------
(* Bounds of the model *)

MaxRecords == 2
MaxNow == 2
TicksPerDay == 1
NumWriters == 2

-----------------------------------------------------------------------------
(* Python dict and defaultdict, as functions with an explicit key set *)

EmptyDict == [k \in {} |-> 0]

\* d.get(k, default): never inserts a key
DictGet(d, k, default) == IF k \in DOMAIN d THEN d[k] ELSE default

\* d[k] = v
DictSet(d, k, v) == [x \in DOMAIN d \cup {k} |-> IF x = k THEN v ELSE d[x]]

\* defaultdict(float).__getitem__(k): a missing key is inserted with 0.0
DefaultDictGetItem(d, k) == IF k \in DOMAIN d THEN d ELSE DictSet(d, k, 0)

\* a read by d[k] in place of d.get(k, 0): the defaultdict inserts the key
DictAfterGetItem(d, k) == DefaultDictGetItem(d, k)

\* the dict a read by d.get(k, 0) leaves behind
DictAfterGet(d, k) == d

\* d[k] = v in place of d[k] += v
DefaultDictAssign(d, k, v) == DictSet(d, k, v)

\* defaultdict(float): d[k] += v
DefaultDictAdd(d, k, v) == DictSet(d, k, DictGet(d, k, 0) + v)

-----------------------------------------------------------------------------
(* datetime.strftime over the proleptic Gregorian calendar *)

Epoch == [year |-> 2023, month |-> 12, day |-> 31, wday |-> 0]

IsLeap(y) == (y % 4 = 0 /\ y % 100 # 0) \/ y % 400 = 0

DaysInMonth(y, m) ==
    IF m = 2 THEN (IF IsLeap(y) THEN 29 ELSE 28)
    ELSE IF m \in {4, 6, 9, 11} THEN 30 ELSE 31

NextDate(d) ==
    IF d.day < DaysInMonth(d.year, d.month)
    THEN [d EXCEPT !.day = @ + 1, !.wday = (@ + 1) % 7]
    ELSE IF d.month < 12
    THEN [d EXCEPT !.month = @ + 1, !.day = 1, !.wday = (@ + 1) % 7]
    ELSE [d EXCEPT !.year = @ + 1, !.month = 1, !.day = 1, !.wday = (@ + 1) % 7]

RECURSIVE DateAfter(_, _)
DateAfter(d, n) == IF n = 0 THEN d ELSE DateAfter(NextDate(d), n - 1)

\* the calendar date of a timestamp (ticks since Epoch, never negative)
DateOf(t) == DateAfter(Epoch, t \div TicksPerDay)

RECURSIVE DaysBeforeMonth(_, _)
DaysBeforeMonth(y, m) ==
    IF m = 1 THEN 0 ELSE DaysBeforeMonth(y, m - 1) + DaysInMonth(y, m - 1)

\* tm_yday, counted from 0
YDay(d) == DaysBeforeMonth(d.year, d.month) + d.day - 1

\* date.toordinal(): 0001-01-01 is day 1
Ordinal(d) ==
    LET y == d.year - 1
    IN  y * 365 + y \div 4 - y \div 100 + y \div 400 + YDay(d) + 1

\* datetime.max.toordinal()
MaxOrdinal == Ordinal([year |-> 9999, month |-> 12, day |-> 31, wday |-> 5])

Pad2(n) == IF n < 10 THEN "0" \o ToString(n) ELSE ToString(n)

\* strftime('%Y-%m-%d')
FormatDay(t) ==
    LET d == DateOf(t)
    IN  ToString(d.year) \o "-" \o Pad2(d.month) \o "-" \o Pad2(d.day)

\* strftime('%Y-W%U'): week of the year, Sunday first, days before the
\* first Sunday are week 00
FormatWeek(t) ==
    LET d == DateOf(t)
    IN  ToString(d.year) \o "-W" \o Pad2((YDay(d) + 7 - d.wday) \div 7)

\* strftime('%Y-%m')
FormatMonth(t) ==
    LET d == DateOf(t)
    IN  ToString(d.year) \o "-" \o Pad2(d.month)

\* the three period keys of every instant of the model, computed once
Instants == 0 .. MaxNow
PeriodKeys ==
    [t \in Instants |->
        [day |-> FormatDay(t), week |-> FormatWeek(t), month |-> FormatMonth(t)]]

DayKey(t) == PeriodKeys[t].day
WeekKey(t) == PeriodKeys[t].week
MonthKey(t) == PeriodKeys[t].month

\* timedelta(days=n), in ticks
TimeDelta(n) == n * TicksPerDay

-----------------------------------------------------------------------------
(* Configuration resolved from the environment at construction *)

\* the defaults of ContentGuardrails.__init__
DefaultGuardrails ==
    [block_pii |-> TRUE, block_toxic |-> TRUE, block_hate |-> TRUE,
     block_violence |-> TRUE, block_sexual |-> TRUE,
     scan_for_secrets |-> TRUE,
     max_input_tokens |-> 8192, max_output_tokens |-> 8192,
     max_request_size |-> 1048576]

\* budgets in money units; thresholds as the percentages the environment
\* gives (COST_ALERT_WARNING = '75' is the fraction 75/100)
BaseConfig ==
    [enabled |-> TRUE,
     daily_budget |-> 100, weekly_budget |-> 150, monthly_budget |-> 200,
     warning_threshold |-> 75, critical_threshold |-> 90,
     emergency_threshold |-> 95,
     guardrails |-> DefaultGuardrails]

Configs ==
    { BaseConfig,
      [BaseConfig EXCEPT !.enabled = FALSE],
      \* disabled, with a ceiling that an empty ledger already exceeds
      [BaseConfig EXCEPT !.enabled = FALSE, !.daily_budget = -100],
      \* thresholds given out of order and a ceiling that is not positive
      [BaseConfig EXCEPT !.warning_threshold = 95, !.emergency_threshold = 75,
                         !.daily_budget = -100] }

\* the pricing dict assigned to self.model_costs by CostTracker.__init__
PricingConfig ==
    [m \in {"vertex-gemini-pro", "vertex-gemini-flash"} |->
        IF m = "vertex-gemini-pro"
        THEN [input |-> 5, output |-> 15]
        ELSE [input |-> 3, output |-> 12]]

\* the prices calculate_cost uses for a model that is not a key
FallbackPrice == [input |-> 40, output |-> 80]

-----------------------------------------------------------------------------
(* Inputs *)

RetentionDays == {0, 1}

\* A text, by what the classifier can observe of it: its size in bytes, its
\* number of whitespace-separated words, whether some PII pattern and some
\* secret pattern matches it, and the toxic keywords it contains.
Text(size, words, pii, secret, keywords) ==
    [size |-> size, words |-> words, pii |-> pii, secret |-> secret,
     keywords |-> keywords]

NoText == Text(0, 0, FALSE, FALSE, {})
Clean == Text(11, 2, FALSE, FALSE, {})
WithPII == Text(21, 4, TRUE, FALSE, {})
WithSecret == Text(30, 3, FALSE, TRUE, {})
WithKeywords == Text(40, 6, FALSE, FALSE, {"kill", "toxic"})
TooLong == Text(45000, 7000, FALSE, FALSE, {})
TooBig == Text(2000000, 1, FALSE, FALSE, {})

InputTexts == {Clean, WithPII, WithSecret, WithKeywords, TooLong, TooBig}

\* the completed calls reported to post_request_processing: a configured
\* model, an unknown model, and a negative token count among them
Request(model, user_id, input_tokens, output_tokens, output_content) ==
    [model |-> model, user_id |-> user_id, input_tokens |-> input_tokens,
     output_tokens |-> output_tokens, output_content |-> output_content]

\* who asks pre_request_check, which reads neither the model nor the user
Callers ==
    { [model |-> "vertex-gemini-pro", user_id |-> "alice"] }

Requests ==
    { Request("vertex-gemini-pro", "alice", 2, 1, Clean),
      Request("unknown-model", "bob", 1, 1, WithSecret),
      Request("vertex-gemini-flash", "alice", -9, 0, WithPII),
      Request("vertex-gemini-pro", "bob", 0, 0, TooLong) }

-----------------------------------------------------------------------------
(* CostTracker *)

\* the ledger as one value
Ledger(c, dc, wc, mc, uc, modc) ==
    [costs |-> c, daily_costs |-> dc, weekly_costs |-> wc,
     monthly_costs |-> mc, user_costs |-> uc, model_costs |-> modc]

CurrentLedger ==
    Ledger(costs, daily_costs, weekly_costs, monthly_costs, user_costs,
           model_costs)

\* the per-token prices calculate_cost resolves for a model
PriceOf(modc, model) ==
    IF model \notin DOMAIN modc THEN FallbackPrice
    ELSE [input |-> modc[model]["input"], output |-> modc[model]["output"]]

calculate_cost(modc, model, input_tokens, output_tokens) ==
    LET price == PriceOf(modc, model)
        input_cost == input_tokens * price.input
        output_cost == output_tokens * price.output
    IN  [input_cost |-> input_cost, output_cost |-> output_cost,
         total_cost |-> input_cost + output_cost]

CostEntry(t, model, user_id, input_tokens, output_tokens, cost, request_id) ==
    [timestamp |-> t, model |-> model, user_id |-> user_id,
     input_tokens |-> input_tokens, output_tokens |-> output_tokens,
     input_cost |-> cost.input_cost, output_cost |-> cost.output_cost,
     total_cost |-> cost.total_cost, request_id |-> request_id]

\* self.user_costs[user_id][today] = total_cost
UserCostsAssign(uc, user_id, today, total_cost) ==
    DictSet(uc, user_id,
            DictSet(DictGet(uc, user_id, EmptyDict), today, total_cost))

\* self.user_costs[user_id][today] += total_cost
UserCostsAdd(uc, user_id, today, total_cost) ==
    DictSet(uc, user_id,
            DefaultDictAdd(DictGet(uc, user_id, EmptyDict), today, total_cost))

\* self.model_costs[model][today] += total_cost, on the plain dict of plain
\* dicts that __init__ left in self.model_costs: a missing key raises
ModelCostsRaises(modc, model, today) ==
    model \notin DOMAIN modc \/ today \notin DOMAIN modc[model]

\* the same statement on the defaultdict of defaultdicts of line 53
ModelCostsAddDefaultDict(modc, model, today, total_cost) ==
    DictSet(modc, model,
            DefaultDictAdd(DictGet(modc, model, EmptyDict), today, total_cost))

ModelCostsAdd(modc, model, today, total_cost) ==
    IF ModelCostsRaises(modc, model, today) THEN modc
    ELSE DictSet(modc, model,
                 DictSet(modc[model], today, modc[model][today] + total_cost))

\* add_cost_entry run from start to end at time t: the ledger it leaves and
\* the exception that ends it ("none" when it returns the entry)
add_cost_entry(L, model, user_id, input_tokens, output_tokens, request_id, t) ==
    LET cost == calculate_cost(L.model_costs, model, input_tokens, output_tokens)
        entry == CostEntry(t, model, user_id, input_tokens, output_tokens,
                           cost, request_id)
        today == DayKey(entry.timestamp)
        week == WeekKey(entry.timestamp)
        month == MonthKey(entry.timestamp)
    IN  [ledger |->
            Ledger(Append(L.costs, entry),
                   DefaultDictAdd(L.daily_costs, today, cost.total_cost),
                   DefaultDictAdd(L.weekly_costs, week, cost.total_cost),
                   DefaultDictAdd(L.monthly_costs, month, cost.total_cost),
                   UserCostsAdd(L.user_costs, user_id, today, cost.total_cost),
                   ModelCostsAdd(L.model_costs, model, today, cost.total_cost)),
         entry |-> entry,
         raised |-> IF ModelCostsRaises(L.model_costs, model, today)
                    THEN "KeyError" ELSE "none"]

\* spent >= budget * threshold, the threshold being percent / 100
Reached(spent, budget, percent) == spent * 100 >= budget * percent

\* check_budget_limits with the weekly critical tier taken from the monthly
\* ceiling
check_budget_limits_wrong_ceiling(dc, wc, mc, t) ==
    LET daily_spent == DictGet(dc, DayKey(t), 0)
        weekly_spent == DictGet(wc, WeekKey(t), 0)
        monthly_spent == DictGet(mc, MonthKey(t), 0)
    IN  [daily_warning |-> Reached(daily_spent, cfg.daily_budget, cfg.warning_threshold),
         daily_critical |-> Reached(daily_spent, cfg.daily_budget, cfg.critical_threshold),
         daily_emergency |-> Reached(daily_spent, cfg.daily_budget, cfg.emergency_threshold),
         weekly_warning |-> Reached(weekly_spent, cfg.weekly_budget, cfg.warning_threshold),
         weekly_critical |-> Reached(weekly_spent, cfg.monthly_budget, cfg.critical_threshold),
         weekly_emergency |-> Reached(weekly_spent, cfg.weekly_budget, cfg.emergency_threshold),
         monthly_warning |-> Reached(monthly_spent, cfg.monthly_budget, cfg.warning_threshold),
         monthly_critical |-> Reached(monthly_spent, cfg.monthly_budget, cfg.critical_threshold),
         monthly_emergency |-> Reached(monthly_spent, cfg.monthly_budget, cfg.emergency_threshold)]

check_budget_limits(dc, wc, mc, t) ==
    LET daily_spent == DictGet(dc, DayKey(t), 0)
        weekly_spent == DictGet(wc, WeekKey(t), 0)
        monthly_spent == DictGet(mc, MonthKey(t), 0)
    IN  [daily_warning |-> Reached(daily_spent, cfg.daily_budget, cfg.warning_threshold),
         daily_critical |-> Reached(daily_spent, cfg.daily_budget, cfg.critical_threshold),
         daily_emergency |-> Reached(daily_spent, cfg.daily_budget, cfg.emergency_threshold),
         weekly_warning |-> Reached(weekly_spent, cfg.weekly_budget, cfg.warning_threshold),
         weekly_critical |-> Reached(weekly_spent, cfg.weekly_budget, cfg.critical_threshold),
         weekly_emergency |-> Reached(weekly_spent, cfg.weekly_budget, cfg.emergency_threshold),
         monthly_warning |-> Reached(monthly_spent, cfg.monthly_budget, cfg.warning_threshold),
         monthly_critical |-> Reached(monthly_spent, cfg.monthly_budget, cfg.critical_threshold),
         monthly_emergency |-> Reached(monthly_spent, cfg.monthly_budget, cfg.emergency_threshold)]

\* spent / budget * 100, kept as the exact quotient; ZeroDivisionError when
\* the budget is 0
Percentage(spent, budget) ==
    [raised |-> budget = 0, num |-> spent * 100, den |-> budget]

Summary(spent, budget) ==
    [spent |-> spent, budget |-> budget,
     percentage |-> Percentage(spent, budget)]

get_current_costs(dc, wc, mc, t) ==
    LET daily == Summary(DictGet(dc, DayKey(t), 0), cfg.daily_budget)
        weekly == Summary(DictGet(wc, WeekKey(t), 0), cfg.weekly_budget)
        monthly == Summary(DictGet(mc, MonthKey(t), 0), cfg.monthly_budget)
    IN  [raised |-> IF \/ daily.percentage.raised
                       \/ weekly.percentage.raised
                       \/ monthly.percentage.raised
                    THEN "ZeroDivisionError" ELSE "none",
         daily |-> daily, weekly |-> weekly, monthly |-> monthly]

\* the alert types post_request_processing logs for a budget status: one
\* warning for every item that is triggered
budget_alerts(budget_status) ==
    {alert_type \in DOMAIN budget_status : budget_status[alert_type]}

\* the entries cleanup_old_entries keeps, in their order
RECURSIVE KeepNewer(_, _)
KeepNewer(c, cutoff_date) ==
    IF c = <<>> THEN <<>>
    ELSE IF Head(c).timestamp > cutoff_date
         THEN <<Head(c)>> \o KeepNewer(Tail(c), cutoff_date)
         ELSE KeepNewer(Tail(c), cutoff_date)

cleanup_old_entries(c, retention_days, t) ==
    KeepNewer(c, t - TimeDelta(retention_days))

-----------------------------------------------------------------------------
(* ContentGuardrails *)

toxic_keywords == <<"hate", "kill", "violence", "explicit", "toxic">>

\* the first keyword of toxic_keywords the text contains, 0 when none
FirstKeyword(content) ==
    LET hits == {i \in DOMAIN toxic_keywords : toxic_keywords[i] \in content.keywords}
    IN  IF hits = {} THEN 0 ELSE CHOOSE i \in hits : \A j \in hits : i <= j

\* len(content.split()) * 1.3 > limit
EstimateExceeds(content, limit) == content.words * 13 > limit * 10

If(cond, violation) == IF cond THEN <<violation>> ELSE <<>>

validate_input(content) ==
    LET g == cfg.guardrails
        violations ==
            If(content.size > g.max_request_size, "Request size exceeds limit")
            \o If(EstimateExceeds(content, g.max_input_tokens),
                  "Estimated input tokens exceed limit")
            \o If(g.block_pii /\ content.pii, "Potential PII detected in input")
            \o If(g.scan_for_secrets /\ content.secret,
                  "Potential secret/API key detected in input")
            \o If((g.block_toxic \/ g.block_hate \/ g.block_violence \/ g.block_sexual)
                      /\ FirstKeyword(content) # 0,
                  "Potentially harmful content detected: "
                      \o toxic_keywords[IF FirstKeyword(content) = 0 THEN 1
                                        ELSE FirstKeyword(content)])
    IN  [ok |-> Len(violations) = 0, violations |-> violations]

\* validate_output with the PII and keyword checks of validate_input
validate_output_as_input(content) ==
    LET g == cfg.guardrails
        violations ==
            If(EstimateExceeds(content, g.max_output_tokens),
               "Output tokens exceed limit")
            \o If(g.block_pii /\ content.pii, "Potential PII detected in input")
            \o If(g.scan_for_secrets /\ content.secret,
                  "Potential secret/API key detected in output")
            \o If(g.block_toxic /\ FirstKeyword(content) # 0,
                  "Potentially harmful content detected")
    IN  [ok |-> Len(violations) = 0, violations |-> violations]

validate_output(content) ==
    LET g == cfg.guardrails
        violations ==
            If(EstimateExceeds(content, g.max_output_tokens),
               "Output tokens exceed limit")
            \o If(g.scan_for_secrets /\ content.secret,
                  "Potential secret/API key detected in output")
    IN  [ok |-> Len(violations) = 0, violations |-> violations]

-----------------------------------------------------------------------------
(* GuardrailsManager: each hook as one step *)

Threads == 1 .. NumWriters + 2
Reader == NumWriters + 1
Writers == 1 .. NumWriters
\* the daemon thread running _cleanup_worker
Worker == NumWriters + 2

BudgetViolation == "Budget limit exceeded - request blocked"

\* no cost summary: the call was not get_current_costs
NoSummary == [raised |-> "unset"]

\* what a finished call leaves in last; summary and at are the result and
\* the time of a call of get_current_costs, alerts the budget alerts that
\* post_request_processing logged
Outcome(op, input_tokens, output_tokens, content, retention_days, raised, ret) ==
    [op |-> op, input_tokens |-> input_tokens, output_tokens |-> output_tokens,
     content |-> content, retention_days |-> retention_days,
     raised |-> raised, returned |-> raised = "none",
     ok |-> ret.ok, violations |-> ret.violations,
     summary |-> NoSummary, at |-> 0, alerts |-> {}]

NoReturn == [ok |-> FALSE, violations |-> <<>>]
Allowed == [ok |-> TRUE, violations |-> <<>>]

\* the locals of a thread: the entry being added, the value loaded by the
\* running +=, and the snapshot get_status is building
NoEntry == CostEntry(0, "", "", 0, 0, calculate_cost(PricingConfig, "", 0, 0), "")
NoSnapshot ==
    [daily_spent |-> 0, daily_percentage_of |-> 0,
     weekly_spent |-> 0, weekly_percentage_of |-> 0,
     monthly_spent |-> 0, monthly_percentage_of |-> 0,
     status_daily |-> 0, status_weekly |-> 0, status_monthly |-> 0,
     total_entries |-> 0, complete |-> FALSE]
NoFrame == [entry |-> NoEntry, tmp |-> 0, snapshot |-> NoSnapshot]

Init ==
    /\ now = 0
    /\ cfg \in Configs
    /\ costs = <<>>
    /\ daily_costs = EmptyDict
    /\ weekly_costs = EmptyDict
    /\ monthly_costs = EmptyDict
    /\ user_costs = EmptyDict
    /\ model_costs = PricingConfig
    /\ created = <<>>
    /\ last = Outcome("init", 0, 0, NoText, 0, "none", Allowed)
    /\ lock = 0
    /\ pc = [t \in Threads |-> "idle"]
    /\ frame = [t \in Threads |-> NoFrame]

\* the hooks run as if GUARDRAILS_ENABLED were never consulted
enabled_ignored == TRUE

\* self.enabled
enabled == cfg.enabled

\* pre_request_check that looks at the daily emergency tier alone
pre_request_check_daily_only(content, model, user_id) ==
    LET budget_status == check_budget_limits(daily_costs, weekly_costs,
                                             monthly_costs, now)
        content_check == validate_input(content)
        violations ==
            If(budget_status.daily_emergency, BudgetViolation)
            \o (IF ~content_check.ok THEN content_check.violations ELSE <<>>)
    IN  [ok |-> Len(violations) = 0, violations |-> violations]

\* pre_request_check that blocks on the weekly emergency tier as well
pre_request_check_weekly_too(content, model, user_id) ==
    LET budget_status == check_budget_limits(daily_costs, weekly_costs,
                                             monthly_costs, now)
        content_check == validate_input(content)
        violations ==
            If(budget_status.daily_emergency \/ budget_status.weekly_emergency
                  \/ budget_status.monthly_emergency,
               BudgetViolation)
            \o (IF ~content_check.ok THEN content_check.violations ELSE <<>>)
    IN  [ok |-> Len(violations) = 0, violations |-> violations]

\* what pre_request_check returns when enabled
pre_request_check(content, model, user_id) ==
    LET budget_status == check_budget_limits(daily_costs, weekly_costs,
                                             monthly_costs, now)
        content_check == validate_input(content)
        violations ==
            If(budget_status.daily_emergency \/ budget_status.monthly_emergency,
               BudgetViolation)
            \o (IF ~content_check.ok THEN content_check.violations ELSE <<>>)
    IN  [ok |-> Len(violations) = 0, violations |-> violations]

PreRequestCheck(content, model, user_id) ==
    /\ IF ~enabled
       THEN /\ last' = Outcome("pre", 0, 0, content, 0,
                               "none", Allowed)
            /\ UNCHANGED <<daily_costs, weekly_costs, monthly_costs>>
       ELSE /\ last' = Outcome("pre", 0, 0, content, 0,
                               "none",
                               pre_request_check(content, model, user_id))
            /\ daily_costs' = DictAfterGet(daily_costs, DayKey(now))
            /\ weekly_costs' = DictAfterGet(weekly_costs, WeekKey(now))
            /\ monthly_costs' = DictAfterGet(monthly_costs, MonthKey(now))
    /\ UNCHANGED <<now, cfg, costs, user_costs, model_costs, created,
                   lock, pc, frame>>

PostRequestProcessing(model, user_id, input_tokens, output_tokens, output_content, request_id) ==
    /\ IF ~enabled
       THEN /\ last' = Outcome("post", input_tokens, output_tokens,
                               output_content, 0, "none", Allowed)
            /\ UNCHANGED <<ledger, created>>
       ELSE LET r == add_cost_entry(CurrentLedger, model, user_id, input_tokens,
                                    output_tokens, request_id, now)
            IN  /\ Len(created) < MaxRecords
                /\ costs' = r.ledger.costs
                /\ daily_costs' = r.ledger.daily_costs
                /\ weekly_costs' = r.ledger.weekly_costs
                /\ monthly_costs' = r.ledger.monthly_costs
                /\ user_costs' = r.ledger.user_costs
                /\ model_costs' = r.ledger.model_costs
                /\ created' = Append(created, r.entry)
                /\ last' = [Outcome("post", input_tokens, output_tokens,
                                    output_content, 0, r.raised,
                                    IF r.raised # "none" THEN NoReturn
                                    ELSE validate_output(output_content))
                               EXCEPT !.alerts =
                                   IF r.raised # "none" THEN {}
                                   ELSE budget_alerts(check_budget_limits(
                                            r.ledger.daily_costs,
                                            r.ledger.weekly_costs,
                                            r.ledger.monthly_costs, now))]
    /\ UNCHANGED <<now, cfg, lock, pc, frame>>

\* a pass that also drops the day totals when it removes entries
CleanupWorkerShrinking(retention_days) ==
    /\ cfg.enabled
    /\ costs' = cleanup_old_entries(costs, retention_days, now)
    /\ daily_costs' = IF costs' = costs THEN daily_costs ELSE EmptyDict
    /\ last' = Outcome("cleanup", 0, 0, NoText, retention_days,
                       "none", Allowed)
    /\ UNCHANGED <<now, cfg, weekly_costs, monthly_costs,
                   user_costs, model_costs, created, lock, pc, frame>>

\* one pass of _cleanup_worker, the thread __init__ starts when enabled
CleanupWorker(retention_days) ==
    /\ cfg.enabled
    /\ costs' = cleanup_old_entries(costs, retention_days, now)
    /\ last' = Outcome("cleanup", 0, 0, NoText, retention_days,
                       "none", Allowed)
    /\ UNCHANGED <<now, cfg, daily_costs, weekly_costs, monthly_costs,
                   user_costs, model_costs, created, lock, pc, frame>>

\* a read of the summary that also starts the day's total afresh
GetCurrentCostsResetting ==
    LET r == get_current_costs(daily_costs, weekly_costs, monthly_costs, now)
    IN  /\ last' = [Outcome("costs", 0, 0, NoText, 0, r.raised, Allowed)
                       EXCEPT !.summary = r, !.at = now]
        /\ daily_costs' = [k \in DOMAIN daily_costs \ {DayKey(now)} |->
                              daily_costs[k]]
        /\ weekly_costs' = DictAfterGet(weekly_costs, WeekKey(now))
        /\ monthly_costs' = DictAfterGet(monthly_costs, MonthKey(now))
        /\ UNCHANGED <<now, cfg, costs, user_costs, model_costs, created,
                       lock, pc, frame>>

\* a call of CostTracker.get_current_costs, as get_status makes it
GetCurrentCosts ==
    LET r == get_current_costs(daily_costs, weekly_costs, monthly_costs, now)
    IN  /\ last' = [Outcome("costs", 0, 0, NoText, 0, r.raised, Allowed)
                       EXCEPT !.summary = r, !.at = now]
        /\ daily_costs' = DictAfterGet(daily_costs, DayKey(now))
        /\ weekly_costs' = DictAfterGet(weekly_costs, WeekKey(now))
        /\ monthly_costs' = DictAfterGet(monthly_costs, MonthKey(now))
        /\ UNCHANGED <<now, cfg, costs, user_costs, model_costs, created,
                       lock, pc, frame>>

\* time passes
Tick ==
    /\ now < MaxNow
    /\ now' = now + 1
    /\ UNCHANGED <<cfg, ledger, created, last, lock, pc, frame>>

Next ==
    \/ \E content \in InputTexts, caller \in Callers :
          PreRequestCheck(content, caller.model, caller.user_id)
    \/ \E q \in Requests :
          PostRequestProcessing(q.model, q.user_id, q.input_tokens,
                                q.output_tokens, q.output_content, "req")
    \/ \E retention_days \in RetentionDays : CleanupWorker(retention_days)
    \/ GetCurrentCosts
    \/ Tick

Spec == Init /\ [][Next]_vars

-----------------------------------------------------------------------------
(* The same code statement by statement, run by concurrent threads: the    *)
(* writers call add_cost_entry, the reader calls get_status.  A thread     *)
(* switch can fall between any two statements, and between the load and    *)
(* the store of a +=.                                                      *)

\* the critical section entered without waiting for the lock
LockIgnored == TRUE

\* with self.lock: the lock can be taken
LockIsFree == lock = 0

\* calls begun: entries appended, and entries built but not yet appended
Begun == Len(created) + Cardinality({w \in Writers : pc[w] \in {"acquire", "append"}})

Goto(t, label) == pc' = [pc EXCEPT ![t] = label]

\* lines 97-109: the cost and the entry, stamped before the lock is taken
BuildEntry(w, q) ==
    /\ pc[w] = "idle"
    /\ Begun < MaxRecords
    /\ frame' = [frame EXCEPT ![w].entry =
                    CostEntry(now, q.model, q.user_id, q.input_tokens,
                              q.output_tokens,
                              calculate_cost(model_costs, q.model,
                                             q.input_tokens, q.output_tokens),
                              "req")]
    /\ Goto(w, "acquire")
    /\ UNCHANGED <<now, cfg, ledger, created, last, lock>>

\* line 111
Acquire(w) ==
    /\ pc[w] = "acquire"
    /\ LockIsFree
    /\ lock' = w
    /\ Goto(w, "append")
    /\ UNCHANGED <<now, cfg, ledger, created, last, frame>>

\* line 112
AppendEntry(w) ==
    /\ pc[w] = "append"
    /\ costs' = Append(costs, frame[w].entry)
    /\ created' = Append(created, frame[w].entry)
    /\ Goto(w, "daily_load")
    /\ UNCHANGED <<now, cfg, daily_costs, weekly_costs, monthly_costs,
                   user_costs, model_costs, last, lock, frame>>

\* line 119, the load of self.daily_costs[today] += total_cost
DailyLoad(w) ==
    /\ pc[w] = "daily_load"
    /\ daily_costs' = DefaultDictGetItem(daily_costs, DayKey(frame[w].entry.timestamp))
    /\ frame' = [frame EXCEPT ![w].tmp = daily_costs'[DayKey(frame[w].entry.timestamp)]]
    /\ Goto(w, "daily_store")
    /\ UNCHANGED <<now, cfg, costs, weekly_costs, monthly_costs, user_costs,
                   model_costs, created, last, lock>>

\* line 119, the store
DailyStore(w) ==
    /\ pc[w] = "daily_store"
    /\ daily_costs' = DictSet(daily_costs, DayKey(frame[w].entry.timestamp),
                              frame[w].tmp + frame[w].entry.total_cost)
    /\ Goto(w, "weekly_load")
    /\ UNCHANGED <<now, cfg, costs, weekly_costs, monthly_costs, user_costs,
                   model_costs, created, last, lock, frame>>

\* line 120
WeeklyLoad(w) ==
    /\ pc[w] = "weekly_load"
    /\ weekly_costs' = DefaultDictGetItem(weekly_costs, WeekKey(frame[w].entry.timestamp))
    /\ frame' = [frame EXCEPT ![w].tmp = weekly_costs'[WeekKey(frame[w].entry.timestamp)]]
    /\ Goto(w, "weekly_store")
    /\ UNCHANGED <<now, cfg, costs, daily_costs, monthly_costs, user_costs,
                   model_costs, created, last, lock>>

WeeklyStore(w) ==
    /\ pc[w] = "weekly_store"
    /\ weekly_costs' = DictSet(weekly_costs, WeekKey(frame[w].entry.timestamp),
                               frame[w].tmp + frame[w].entry.total_cost)
    /\ Goto(w, "monthly_load")
    /\ UNCHANGED <<now, cfg, costs, daily_costs, monthly_costs, user_costs,
                   model_costs, created, last, lock, frame>>

\* line 121
MonthlyLoad(w) ==
    /\ pc[w] = "monthly_load"
    /\ monthly_costs' = DefaultDictGetItem(monthly_costs, MonthKey(frame[w].entry.timestamp))
    /\ frame' = [frame EXCEPT ![w].tmp = monthly_costs'[MonthKey(frame[w].entry.timestamp)]]
    /\ Goto(w, "monthly_store")
    /\ UNCHANGED <<now, cfg, costs, daily_costs, weekly_costs, user_costs,
                   model_costs, created, last, lock>>

MonthlyStore(w) ==
    /\ pc[w] = "monthly_store"
    /\ monthly_costs' = DictSet(monthly_costs, MonthKey(frame[w].entry.timestamp),
                                frame[w].tmp + frame[w].entry.total_cost)
    /\ Goto(w, "user_load")
    /\ UNCHANGED <<now, cfg, costs, daily_costs, weekly_costs, user_costs,
                   model_costs, created, last, lock, frame>>

\* line 123: self.user_costs[user_id] makes the inner defaultdict, and the
\* load of [today] makes its key
UserLoad(w) ==
    /\ pc[w] = "user_load"
    /\ LET e == frame[w].entry
           inner == DefaultDictGetItem(DictGet(user_costs, e.user_id, EmptyDict),
                                       DayKey(e.timestamp))
       IN  /\ user_costs' = DictSet(user_costs, e.user_id, inner)
           /\ frame' = [frame EXCEPT ![w].tmp = inner[DayKey(e.timestamp)]]
    /\ Goto(w, "user_store")
    /\ UNCHANGED <<now, cfg, costs, daily_costs, weekly_costs, monthly_costs,
                   model_costs, created, last, lock>>

UserStore(w) ==
    /\ pc[w] = "user_store"
    /\ LET e == frame[w].entry
       IN  user_costs' = DictSet(user_costs, e.user_id,
                                 DictSet(DictGet(user_costs, e.user_id, EmptyDict),
                                         DayKey(e.timestamp),
                                         frame[w].tmp + e.total_cost))
    /\ Goto(w, "model_add")
    /\ UNCHANGED <<now, cfg, costs, daily_costs, weekly_costs, monthly_costs,
                   model_costs, created, last, lock, frame>>

\* line 124 and the end of the with block: the += on self.model_costs; a
\* KeyError leaves the with block, which releases the lock, and ends the call
ModelAdd(w) ==
    /\ pc[w] = "model_add"
    /\ LET e == frame[w].entry
       IN  model_costs' = ModelCostsAdd(model_costs, e.model,
                                        DayKey(e.timestamp), e.total_cost)
    /\ lock' = 0
    /\ frame' = [frame EXCEPT ![w] = NoFrame]
    /\ Goto(w, "idle")
    /\ UNCHANGED <<now, cfg, costs, daily_costs, weekly_costs, monthly_costs,
                   user_costs, created, last>>

\* get_status, lines 347-364: each read of the ledger is a step of its own
ReaderRead(label, next, field, value) ==
    /\ pc[Reader] = label
    /\ frame' = [frame EXCEPT ![Reader].snapshot[field] = value]
    /\ Goto(Reader, next)
    /\ UNCHANGED <<now, cfg, ledger, created, last, lock>>

StatusBegin ==
    /\ pc[Reader] = "idle"
    /\ cfg.enabled
    /\ frame' = [frame EXCEPT ![Reader].snapshot = NoSnapshot]
    /\ Goto(Reader, "daily_spent")
    /\ UNCHANGED <<now, cfg, ledger, created, last, lock>>

\* get_current_costs, lines 159-171
ReadDailySpent ==
    ReaderRead("daily_spent", "daily_percentage", "daily_spent",
               DictGet(daily_costs, DayKey(now), 0))
ReadDailyPercentage ==
    ReaderRead("daily_percentage", "weekly_spent", "daily_percentage_of",
               DictGet(daily_costs, DayKey(now), 0))
ReadWeeklySpent ==
    ReaderRead("weekly_spent", "weekly_percentage", "weekly_spent",
               DictGet(weekly_costs, WeekKey(now), 0))
ReadWeeklyPercentage ==
    ReaderRead("weekly_percentage", "monthly_spent", "weekly_percentage_of",
               DictGet(weekly_costs, WeekKey(now), 0))
ReadMonthlySpent ==
    ReaderRead("monthly_spent", "monthly_percentage", "monthly_spent",
               DictGet(monthly_costs, MonthKey(now), 0))
ReadMonthlyPercentage ==
    ReaderRead("monthly_percentage", "status_daily", "monthly_percentage_of",
               DictGet(monthly_costs, MonthKey(now), 0))

\* check_budget_limits, lines 135-137
ReadStatusDaily ==
    ReaderRead("status_daily", "status_weekly", "status_daily",
               DictGet(daily_costs, DayKey(now), 0))
ReadStatusWeekly ==
    ReaderRead("status_weekly", "status_monthly", "status_weekly",
               DictGet(weekly_costs, WeekKey(now), 0))
ReadStatusMonthly ==
    ReaderRead("status_monthly", "total_entries", "status_monthly",
               DictGet(monthly_costs, MonthKey(now), 0))

\* line 356, then the dict is returned
ReadTotalEntries ==
    /\ pc[Reader] = "total_entries"
    /\ frame' = [frame EXCEPT ![Reader].snapshot.total_entries = Len(costs),
                              ![Reader].snapshot.complete = TRUE]
    /\ Goto(Reader, "idle")
    /\ UNCHANGED <<now, cfg, ledger, created, last, lock>>

\* the calls the concurrent writers report: those with a positive cost
ConcurrentRequests == {q \in Requests : q.input_tokens > 0}

InitConc ==
    /\ Init
    /\ cfg = BaseConfig

NextConc ==
    \/ \E w \in Writers, q \in ConcurrentRequests : BuildEntry(w, q)
    \/ \E w \in Writers : Acquire(w)
    \/ \E w \in Writers : AppendEntry(w)
    \/ \E w \in Writers : DailyLoad(w)
    \/ \E w \in Writers : DailyStore(w)
    \/ \E w \in Writers : WeeklyLoad(w)
    \/ \E w \in Writers : WeeklyStore(w)
    \/ \E w \in Writers : MonthlyLoad(w)
    \/ \E w \in Writers : MonthlyStore(w)
    \/ \E w \in Writers : UserLoad(w)
    \/ \E w \in Writers : UserStore(w)
    \/ \E w \in Writers : ModelAdd(w)
    \/ StatusBegin
    \/ ReadDailySpent
    \/ ReadDailyPercentage
    \/ ReadWeeklySpent
    \/ ReadWeeklyPercentage
    \/ ReadMonthlySpent
    \/ ReadMonthlyPercentage
    \/ ReadStatusDaily
    \/ ReadStatusWeekly
    \/ ReadStatusMonthly
    \/ ReadTotalEntries

SpecConc == InitConc /\ [][NextConc]_vars


-----------------------------------------------------------------------------
(* _cleanup_worker statement by statement: the thread sleeps, reads        *)
(* COST_RETENTION_DAYS, converts it, runs cleanup_old_entries, and goes    *)
(* round its while True loop; an exception of the try body is logged by    *)
(* the except clause.  pc[Worker] is "idle" in time.sleep.                  *)

DigitChars == <<"0", "1", "2", "3", "4", "5", "6", "7", "8", "9">>
IsDigit(c) == \E i \in 1 .. Len(DigitChars) : DigitChars[i] = c
DigitValue(c) == (CHOOSE i \in 1 .. Len(DigitChars) : DigitChars[i] = c) - 1

RECURSIVE ParseDigits(_, _)
ParseDigits(s, acc) ==
    IF s = <<>> THEN acc
    ELSE ParseDigits(Tail(s), acc * 10 + DigitValue(Head(s)))

\* int(str) of a string given as its characters: an optional sign and at
\* least one decimal digit, ValueError otherwise
int(s) ==
    LET signed == s # <<>> /\ Head(s) \in {"-", "+"}
        body == IF signed THEN Tail(s) ELSE s
        valid == body # <<>> /\ \A i \in 1 .. Len(body) : IsDigit(body[i])
    IN  IF ~valid THEN [raised |-> "ValueError", value |-> 0]
        ELSE [raised |-> "none",
              value |-> IF signed /\ Head(s) = "-"
                        THEN 0 - ParseDigits(body, 0)
                        ELSE ParseDigits(body, 0)]

\* os.getenv('COST_RETENTION_DAYS', '30'): unset, or set to some string
RetentionDefault == <<"3", "0">>
EnvRetention ==
    { RetentionDefault, <<"0">>, <<"1">>, <<"3", "0", "d">>,
      <<"9", "9", "9", "9", "9", "9", "9", "9", "9">> }

\* datetime.utcnow() - timedelta(days=retention_days) leaves the range of
\* datetime: OverflowError
CutoffRaises(retention_days, t) ==
    LET cutoff == Ordinal(DateOf(t)) - retention_days
    IN  cutoff < 1 \/ cutoff > MaxOrdinal

\* the thread returns from _cleanup_worker after the except clause
AfterExceptReturn == "done"

\* after the except clause the while True loop goes back to time.sleep
AfterExcept == "idle"

\* time.sleep(3600) returns
WorkerWake ==
    /\ cfg.enabled
    /\ pc[Worker] = "idle"
    /\ Goto(Worker, "getenv")
    /\ UNCHANGED <<now, cfg, ledger, created, last, lock, frame>>

\* retention_days = int(os.getenv('COST_RETENTION_DAYS', '30'))
WorkerGetenv(s) ==
    /\ pc[Worker] = "getenv"
    /\ LET r == int(s)
       IN  IF r.raised # "none"
           THEN /\ Goto(Worker, "except")
                /\ UNCHANGED frame
           ELSE /\ Goto(Worker, "cleanup")
                /\ frame' = [frame EXCEPT ![Worker].tmp = r.value]
    /\ UNCHANGED <<now, cfg, ledger, created, last, lock>>

\* self.cost_tracker.cleanup_old_entries(retention_days)
WorkerCleanup ==
    /\ pc[Worker] = "cleanup"
    /\ LET retention_days == frame[Worker].tmp
       IN  IF CutoffRaises(retention_days, now)
           THEN /\ Goto(Worker, "except")
                /\ UNCHANGED <<costs, last, frame>>
           ELSE /\ LockIsFree
                /\ costs' = cleanup_old_entries(costs, retention_days, now)
                /\ last' = Outcome("cleanup", 0, 0, NoText, retention_days,
                                   "none", Allowed)
                /\ Goto(Worker, "idle")
                /\ frame' = [frame EXCEPT ![Worker].tmp = 0]
    /\ UNCHANGED <<now, cfg, daily_costs, weekly_costs, monthly_costs,
                   user_costs, model_costs, created, lock>>

\* except Exception as e: logger.error(...)
WorkerExcept ==
    /\ pc[Worker] = "except"
    /\ Goto(Worker, AfterExcept)
    /\ frame' = [frame EXCEPT ![Worker].tmp = 0]
    /\ UNCHANGED <<now, cfg, ledger, created, last, lock>>

WorkerStep ==
    \/ WorkerWake
    \/ \E s \in EnvRetention : WorkerGetenv(s)
    \/ WorkerCleanup
    \/ WorkerExcept

NextWorker ==
    \/ WorkerWake
    \/ \E s \in EnvRetention : WorkerGetenv(s)
    \/ WorkerCleanup
    \/ WorkerExcept
    \/ \E q \in ConcurrentRequests :
          PostRequestProcessing(q.model, q.user_id, q.input_tokens,
                                q.output_tokens, q.output_content, "req")
    \/ Tick

\* the thread is a daemon thread of the interpreter: it is scheduled again
\* and again, and time.sleep returns
SpecWorker == Init /\ [][NextWorker]_vars /\ WF_vars(WorkerStep)


-----------------------------------------------------------------------------
(* ContentGuardrails.validate_output on its own: the classifier as the     *)
(* environment can configure it, applied to outputs on both sides of the   *)
(* token ceiling, with and without PII, a secret and a toxic keyword.      *)

ClassifierConfigs ==
    { BaseConfig,
      [BaseConfig EXCEPT !.guardrails.scan_for_secrets = FALSE],
      [BaseConfig EXCEPT !.guardrails.block_pii = FALSE,
                         !.guardrails.block_toxic = FALSE],
      [BaseConfig EXCEPT !.guardrails.max_output_tokens = 0] }

\* 6301 words are estimated at 8191.3 tokens, 6302 words at 8192.6
OutputWords == {0, 2, 6301, 6302}

OutputTexts ==
    { Text(w * 6, w, pii, secret, keywords) :
        w \in OutputWords, pii \in BOOLEAN, secret \in BOOLEAN,
        keywords \in {{}, {"kill"}} }

InitClassifier ==
    /\ now = 0
    /\ cfg \in ClassifierConfigs
    /\ costs = <<>>
    /\ daily_costs = EmptyDict
    /\ weekly_costs = EmptyDict
    /\ monthly_costs = EmptyDict
    /\ user_costs = EmptyDict
    /\ model_costs = PricingConfig
    /\ created = <<>>
    /\ last = Outcome("init", 0, 0, NoText, 0, "none", Allowed)
    /\ lock = 0
    /\ pc = [t \in Threads |-> "idle"]
    /\ frame = [t \in Threads |-> NoFrame]

ValidateOutput(content) ==
    /\ last' = Outcome("validate_output", 0, 0, content, 0, "none",
                       validate_output(content))
    /\ UNCHANGED <<now, cfg, ledger, created, lock, pc, frame>>

NextClassifier == \E content \in OutputTexts : ValidateOutput(content)

SpecClassifier == InitClassifier /\ [][NextClassifier]_vars

-----------------------------------------------------------------------------
(* Properties *)

\* what a period has accumulated, 0 when the period has no key
Spent(d, k) == IF k \in DOMAIN d THEN d[k] ELSE 0

RECURSIVE TotalCost(_)
TotalCost(entries) ==
    IF entries = <<>> THEN 0
    ELSE Head(entries).total_cost + TotalCost(Tail(entries))

CreatedOn(k) == SelectSeq(created, LAMBDA e : DayKey(e.timestamp) = k)
CreatedInWeek(k) == SelectSeq(created, LAMBDA e : WeekKey(e.timestamp) = k)
CreatedInMonth(k) == SelectSeq(created, LAMBDA e : MonthKey(e.timestamp) = k)
CreatedFor(user_id, k) ==
    SelectSeq(created, LAMBDA e : e.user_id = user_id /\ DayKey(e.timestamp) = k)
CreatedWith(model, k) ==
    SelectSeq(created, LAMBDA e : e.model = model /\ DayKey(e.timestamp) = k)

Contains(violations, v) == \E i \in DOMAIN violations : violations[i] = v

\* the step is a whole hook call (Spec): the hook sets last, time stands still
StepPre == last'.op = "pre" /\ now' = now
StepPost == last'.op = "post" /\ now' = now
StepCleanup == last'.op = "cleanup" /\ now' = now
StepCosts == last'.op = "costs" /\ now' = now
SamePeriods(t, u) ==
    DayKey(t) = DayKey(u) /\ WeekKey(t) = WeekKey(u) /\ MonthKey(t) = MonthKey(u)

DailyEmergency ==
    Spent(daily_costs, DayKey(now)) * 100
        >= cfg.daily_budget * cfg.emergency_threshold
MonthlyEmergency ==
    Spent(monthly_costs, MonthKey(now)) * 100
        >= cfg.monthly_budget * cfg.emergency_threshold

WeeklyEmergency ==
    Spent(weekly_costs, WeekKey(now)) * 100
        >= cfg.weekly_budget * cfg.emergency_threshold

\* C1: with the coordinator enabled, a pre_request_check made while the
\* day's or the month's accumulated cost has reached ceiling x emergency
\* fraction returns allow = false with the budget violation in its list,
\* whatever the content.
C1_EmergencyBlocks ==
    [][ (cfg.enabled /\ StepPre /\ (DailyEmergency \/ MonthlyEmergency))
            => (~last'.ok /\ last'.returned
                /\ Contains(last'.violations, BudgetViolation)) ]_vars

\* C1 witness: clean content refused for the budget alone, the month over
\* its emergency level while the day is not.
C1_Witness ==
    /\ cfg.enabled /\ last.op = "pre" /\ last.content = Clean
    /\ MonthlyEmergency /\ ~DailyEmergency
    /\ ~last.ok /\ last.violations = <<BudgetViolation>>

\* C2: when every concurrent add_cost_entry call has finished, each day's
\* accumulator is the sum of the total costs of the entries added that day:
\* no update lost, none applied twice.
C2_NoLostUpdate ==
    (\A w \in Writers : pc[w] = "idle")
        => \A k \in DOMAIN daily_costs \cup {DayKey(now)} :
              Spent(daily_costs, k) = TotalCost(CreatedOn(k))

\* C2 witness: two calls, from two entries of different cost, have finished.
C2_Witness ==
    /\ \A w \in Writers : pc[w] = "idle"
    /\ Len(created) >= 2
    /\ created[1].total_cost # created[2].total_cost
    /\ Spent(daily_costs, DayKey(now)) = TotalCost(created)

\* C3: once a record call has ended, the entry is retained and its total
\* cost is in each of the five accumulators exactly once.
C3_RecordAllOrNothing ==
    /\ (last.op = "post" /\ cfg.enabled)
          => (costs # <<>> /\ costs[Len(costs)] = created[Len(created)])
    /\ \A i \in DOMAIN created :
          LET e == created[i]
              day == DayKey(e.timestamp)
              week == WeekKey(e.timestamp)
              month == MonthKey(e.timestamp)
          IN  /\ Spent(daily_costs, day) = TotalCost(CreatedOn(day))
              /\ Spent(weekly_costs, week) = TotalCost(CreatedInWeek(week))
              /\ Spent(monthly_costs, month) = TotalCost(CreatedInMonth(month))
              /\ e.user_id \in DOMAIN user_costs
              /\ Spent(user_costs[e.user_id], day)
                    = TotalCost(CreatedFor(e.user_id, day))
              /\ e.model \in DOMAIN model_costs
              /\ day \in DOMAIN model_costs[e.model]
              /\ model_costs[e.model][day] = TotalCost(CreatedWith(e.model, day))

\* C4: pre_request_check and post_request_processing never raise: each call
\* ends by returning its (bool, violations) pair.
C4_HooksNeverRaise ==
    last.op \in {"pre", "post"} => (last.returned /\ last.raised = "none")

\* C5: a prune removes exactly the entries with timestamp < now - retention
\* and keeps, in their order, those with timestamp >= now - retention.
C5_PruneKeepsBoundary ==
    [][ StepCleanup =>
          costs' = SelectSeq(costs,
                       LAMBDA e : e.timestamp >= now - TimeDelta(last'.retention_days))
      ]_vars

\* C6: in every ledger state, for each period whose ceiling is positive and
\* with warning <= critical <= emergency, emergency implies critical and
\* critical implies warning in the result of check_budget_limits.
C6_TiersMonotone ==
    LET b == check_budget_limits(daily_costs, weekly_costs, monthly_costs, now)
    IN  (cfg.warning_threshold <= cfg.critical_threshold
            /\ cfg.critical_threshold <= cfg.emergency_threshold)
        => /\ cfg.daily_budget > 0
                => /\ b.daily_emergency => b.daily_critical
                   /\ b.daily_critical => b.daily_warning
           /\ cfg.weekly_budget > 0
                => /\ b.weekly_emergency => b.weekly_critical
                   /\ b.weekly_critical => b.weekly_warning
           /\ cfg.monthly_budget > 0
                => /\ b.monthly_emergency => b.monthly_critical
                   /\ b.monthly_critical => b.monthly_warning

\* C6 witness: ordered thresholds, positive ceilings, and a week that has
\* reached its emergency tier while the month has not reached its warning.
C6_Witness ==
    LET b == check_budget_limits(daily_costs, weekly_costs, monthly_costs, now)
    IN  /\ cfg = BaseConfig
        /\ b.weekly_emergency /\ b.weekly_critical /\ b.weekly_warning
        /\ ~b.monthly_warning

\* C7: pre_request_check leaves the retained entries and the five
\* accumulators, key sets included, as they were, whether it allows or
\* denies.
C7_PreCheckReadOnly == [][ StepPre => UNCHANGED ledger ]_vars

\* C7 witness: a denied check made on a day that has no key in daily_costs
\* while the ledger holds entries.
C7_Witness ==
    /\ cfg.enabled /\ last.op = "pre" /\ ~last.ok
    /\ costs # <<>>
    /\ DayKey(now) \notin DOMAIN daily_costs

\* C8: with the coordinator enabled, every post_request_processing call
\* adds exactly one entry and then returns ok = (the output classifier found
\* no violation), whatever the budget tiers.
C8_PostRecordsThenClassifies ==
    [][ (cfg.enabled /\ StepPost)
            => /\ Len(costs') = Len(costs) + 1
               /\ Len(created') = Len(created) + 1
               /\ last'.returned
               /\ last'.ok = validate_output(last'.content).ok
               /\ last'.violations = validate_output(last'.content).violations
      ]_vars

\* C9: a call with a negative token count ends in an input-validation
\* error, adds no entry and changes no accumulator; no accumulator ever
\* decreases.
C9_NegativeTokensRejected ==
    [][ /\ (cfg.enabled /\ StepPost
              /\ (last'.input_tokens < 0 \/ last'.output_tokens < 0))
            => /\ last'.raised = "ValidationError"
               /\ UNCHANGED <<ledger, created>>
        /\ \A k \in DOMAIN daily_costs :
              k \in DOMAIN daily_costs' /\ daily_costs'[k] >= daily_costs[k]
        /\ \A k \in DOMAIN weekly_costs :
              k \in DOMAIN weekly_costs' /\ weekly_costs'[k] >= weekly_costs[k]
        /\ \A k \in DOMAIN monthly_costs :
              k \in DOMAIN monthly_costs' /\ monthly_costs'[k] >= monthly_costs[k]
      ]_vars

\* C10: a get_status snapshot that counts an entry in total_entries has that
\* entry's total cost in the daily, weekly and monthly totals it reports:
\* every total is the sum over at least the counted entries.
C10_SnapshotConsistent ==
    LET snap == frame[Reader].snapshot
        Covers(total) ==
            \E m \in snap.total_entries .. Len(created) :
                total = TotalCost(SubSeq(created, 1, m))
    IN  snap.complete
            => /\ Covers(snap.daily_spent)
               /\ Covers(snap.weekly_spent)
               /\ Covers(snap.monthly_spent)
               /\ Covers(snap.status_daily)
               /\ Covers(snap.status_weekly)
               /\ Covers(snap.status_monthly)

\* C11: with the coordinator disabled, pre_request_check and
\* post_request_processing return (True, []) for every input, whatever the
\* budget state and the content, and neither adds an entry or changes an
\* accumulator.
C11_DisabledHooksPassThrough ==
    [][ (~cfg.enabled /\ (StepPre \/ StepPost))
            => /\ last'.returned /\ last'.ok /\ last'.violations = <<>>
               /\ UNCHANGED <<ledger, created>> ]_vars

\* C11 witness: disabled, the day's emergency level reached, and an output
\* with PII reported with a negative token count: ok, nothing kept.
C11_Witness ==
    /\ ~cfg.enabled /\ DailyEmergency
    /\ last.op = "post" /\ last.content = WithPII /\ last.input_tokens < 0
    /\ last.ok /\ last.violations = <<>>
    /\ costs = <<>> /\ created = <<>> /\ daily_costs = EmptyDict

C13_PruneKeepsAggregates ==
    [][ StepCleanup
            => /\ UNCHANGED <<daily_costs, weekly_costs, monthly_costs,
                              user_costs, model_costs>>
               /\ check_budget_limits(daily_costs, weekly_costs,
                                      monthly_costs, now)'
                    = check_budget_limits(daily_costs, weekly_costs,
                                          monthly_costs, now)
               /\ get_current_costs(daily_costs, weekly_costs,
                                    monthly_costs, now)'
                    = get_current_costs(daily_costs, weekly_costs,
                                        monthly_costs, now) ]_vars

\* C13 witness: a pass has removed an entry of today, whose cost is still in
\* today's total.
C13_Witness ==
    /\ last.op = "cleanup" /\ Len(costs) < Len(created)
    /\ \E i \in DOMAIN created : DayKey(created[i].timestamp) = DayKey(now)
    /\ Spent(daily_costs, DayKey(now)) > 0
    /\ Spent(daily_costs, DayKey(now)) = TotalCost(CreatedOn(DayKey(now)))

C15_ReadIdempotent ==
    [][ (last.op = "costs" /\ last'.op = "costs")
            => last'.summary = last.summary /\ UNCHANGED ledger ]_vars

\* C15: get_current_costs is an idempotent pure read within one day, week
\* and month: no call of it changes the ledger, two calls made in the same
\* periods with nothing between them return identical summaries, and no step
\* other than a recording one changes what it returns in those periods.
C15_ReadIdempotentInPeriod ==
    /\ [][ StepCosts
              => /\ UNCHANGED <<ledger, created>>
                 /\ last'.summary =
                       get_current_costs(daily_costs, weekly_costs,
                                         monthly_costs, now) ]_vars
    /\ [][ (last.op = "costs" /\ last'.op = "costs"
               /\ SamePeriods(last.at, last'.at))
              => last'.summary = last.summary ]_vars
    /\ [][ (created' = created /\ SamePeriods(now, now'))
              => \/ UNCHANGED <<daily_costs, weekly_costs, monthly_costs, now>>
                 \/ get_current_costs(daily_costs, weekly_costs,
                                      monthly_costs, now)'
                      = get_current_costs(daily_costs, weekly_costs,
                                          monthly_costs, now) ]_vars

\* C15 witness: a summary with a nonzero amount spent today, month and week
C15_Witness ==
    /\ last.op = "costs" /\ last.at = now
    /\ last.summary.raised = "none"
    /\ last.summary.daily.spent > 0
    /\ last.summary.weekly.spent > last.summary.daily.spent
    /\ Len(costs) < Len(created)

\* C16: a call of post_request_processing logs a budget alert exactly for
\* the tiers its entry makes true: the tiers that were false before the call
\* and are true after it, and none of those that were true already.
C16_AlertsOnlyNewlyTrue ==
    [][ (cfg.enabled /\ StepPost)
            => LET before == check_budget_limits(daily_costs, weekly_costs,
                                                 monthly_costs, now)
                   after == check_budget_limits(daily_costs', weekly_costs',
                                                monthly_costs', now')
               IN  last'.alerts =
                      {tier \in DOMAIN after : after[tier] /\ ~before[tier]}
       ]_vars

\* C17: validate_output reports only the output token limit and a secret in
\* the output: an output with PII or a harmful keyword that is within the
\* token ceiling and holds no secret gets ok = true and an empty list, and
\* ok holds exactly when the list is empty.
C17_OutputChecksOnly ==
    last.op = "validate_output" =>
        LET content == last.content
            within == content.words * 13 <= cfg.guardrails.max_output_tokens * 10
        IN  /\ last.ok <=> last.violations = <<>>
            /\ \A i \in DOMAIN last.violations :
                  last.violations[i] \in
                      {"Output tokens exceed limit",
                       "Potential secret/API key detected in output"}
            /\ Contains(last.violations, "Output tokens exceed limit") <=> ~within
            /\ Contains(last.violations,
                        "Potential secret/API key detected in output")
                  => content.secret
            /\ (within /\ ~content.secret)
                  => last.ok /\ last.violations = <<>>

\* C17 witness: an output just within the ceiling, with PII and a harmful
\* keyword and no secret, was found ok by a classifier that blocks both on
\* input.
C17_Witness ==
    /\ last.op = "validate_output" /\ last.ok /\ last.violations = <<>>
    /\ last.content.pii /\ last.content.keywords # {}
    /\ last.content.words = 6301
    /\ cfg.guardrails.block_pii /\ cfg.guardrails.block_toxic

NonNegativeTokens(entries) ==
    \A i \in DOMAIN entries :
        entries[i].input_tokens >= 0 /\ entries[i].output_tokens >= 0

\* C18: with no negative token count, a daily emergency block is sticky for
\* the day: a pre_request_check made while the daily emergency level is
\* reached is denied with the budget violation, and no call of
\* add_cost_entry or cleanup_old_entries, nor any other step that leaves the
\* day label unchanged, takes the day's total below that level again; the
\* same holds for the monthly level and the month label.
C18_StickyBlock ==
    /\ [][ (cfg.enabled /\ StepPre /\ (DailyEmergency \/ MonthlyEmergency))
              => /\ ~last'.ok
                 /\ Contains(last'.violations, BudgetViolation) ]_vars
    /\ [][ (cfg.enabled /\ StepPre /\ Contains(last'.violations, BudgetViolation))
              => (DailyEmergency \/ MonthlyEmergency) ]_vars
    /\ [][ (DailyEmergency /\ DayKey(now') = DayKey(now)
               /\ NonNegativeTokens(created'))
              => DailyEmergency' ]_vars
    /\ [][ (MonthlyEmergency /\ MonthKey(now') = MonthKey(now)
               /\ NonNegativeTokens(created'))
              => MonthlyEmergency' ]_vars

\* C18 witness: a request is denied for the daily emergency level after a
\* second entry was recorded the same day and a pass removed entries.
C18_Witness ==
    /\ cfg = BaseConfig /\ NonNegativeTokens(created)
    /\ last.op = "pre" /\ ~last.ok
    /\ Contains(last.violations, BudgetViolation)
    /\ DailyEmergency
    /\ Len(created) = MaxRecords /\ costs = <<>>
    /\ \A i \in DOMAIN created : DayKey(created[i].timestamp) = DayKey(now)

\* C19: the weekly tiers never block admission: a pre_request_check made
\* while the weekly emergency level is reached and neither the daily nor the
\* monthly one is returns no budget violation, and allows the request
\* exactly when validate_input finds no violation.
C19_WeeklyNeverBlocks ==
    [][ (cfg.enabled /\ StepPre /\ WeeklyEmergency
            /\ ~DailyEmergency /\ ~MonthlyEmergency)
            => /\ ~Contains(last'.violations, BudgetViolation)
               /\ last'.violations = validate_input(last'.content).violations
               /\ last'.ok <=> validate_input(last'.content).violations = <<>>
       ]_vars

\* C19 witness: the week's total, spent the day before, is over the weekly
\* emergency level, today's and the month's are under theirs, and a clean
\* request is allowed.
C19_Witness ==
    /\ cfg = BaseConfig /\ last.op = "pre" /\ last.ok
    /\ last.content = Clean
    /\ WeeklyEmergency /\ ~DailyEmergency /\ ~MonthlyEmergency
    /\ Spent(weekly_costs, WeekKey(now)) > Spent(daily_costs, DayKey(now))

\* C19 witness of the other case: under the same totals a request with PII
\* is denied, for the PII alone.
C19_WitnessDenied ==
    /\ cfg = BaseConfig /\ last.op = "pre" /\ ~last.ok
    /\ last.content = WithPII
    /\ WeeklyEmergency /\ ~DailyEmergency /\ ~MonthlyEmergency

\* the sum of f[x] over the elements x of S
RECURSIVE SumOver(_, _)
SumOver(f, S) ==
    IF S = {} THEN 0
    ELSE LET x == CHOOSE y \in S : TRUE
         IN  f[x] + SumOver(f, S \ {x})

DayKeys == {DayKey(t) : t \in Instants}
MonthKeys == {MonthKey(t) : t \in Instants}
DayKeysOf(m) == {DayKey(t) : t \in {u \in Instants : MonthKey(u) = m}}

\* C20: between calls of add_cost_entry the accumulators agree: for every
\* day, the day's total equals the sum of the users' totals of that day and
\* the sum of total_cost over all entries ever created that day, removed by
\* cleanup or not; for every month, the month's total equals the sum of the
\* totals of its days.
C20_AccumulatorsAgree ==
    /\ DOMAIN daily_costs \subseteq DayKeys
    /\ DOMAIN monthly_costs \subseteq MonthKeys
    /\ \A u \in DOMAIN user_costs : DOMAIN user_costs[u] \subseteq DayKeys
    /\ \A d \in DayKeys :
          /\ Spent(daily_costs, d)
                = SumOver([u \in DOMAIN user_costs |-> Spent(user_costs[u], d)],
                          DOMAIN user_costs)
          /\ Spent(daily_costs, d) = TotalCost(CreatedOn(d))
    /\ \A m \in MonthKeys :
          Spent(monthly_costs, m)
             = SumOver([d \in DayKeysOf(m) |-> Spent(daily_costs, d)],
                       DayKeysOf(m))

\* C20 witness: two users have entries on two days of one month, and an
\* entry has been removed by cleanup.
C20_Witness ==
    /\ Len(costs) < Len(created)
    /\ Cardinality(DOMAIN user_costs) = 2
    /\ \E d1, d2 \in DOMAIN daily_costs :
          /\ d1 # d2
          /\ {d1, d2} \subseteq DayKeysOf(MonthKey(now))
          /\ daily_costs[d1] > 0 /\ daily_costs[d2] > 0
          /\ monthly_costs[MonthKey(now)] = daily_costs[d1] + daily_costs[d2]

====
